---- MODULE Spec2Model ----
(***************************************************************************)
(* Model of src/py/function.go: the Function object of the interpreter,    *)
(* its constructor NewFunction, the call and binding methods M__call__     *)
(* and M__get__, and the property table installed by init() with the       *)
(* getters, setters and deleters of __code__, __defaults__,                *)
(* __kwdefaults__, __annotations__, __dict__, __name__ and __qualname__.   *)
(***************************************************************************)
EXTENDS Integers, Sequences, FiniteSets

VARIABLES f, last, stack

vars == <<f, last, stack>>

(***************************************************************************)
(* Bounds of the explored inputs.                                          *)
(***************************************************************************)
\* code objects have 0..MaxFree free variables
MaxFree == 1
\* at most MaxDepth calls of the function are in the evaluator at once
MaxDepth == 1

(***************************************************************************)
(* Values of the object model.  Every value carries its dynamic type in    *)
(* kind, which is what a Go type assertion value.(T) inspects.  Tuple and  *)
(* StringDict are a slice and a map: their zero value is nil, which isnil  *)
(* keeps apart from an empty non-nil one.                                  *)
(***************************************************************************)
None == [kind |-> "None"]

String(s) == [kind |-> "String", s |-> s]

IntObj(n) == [kind |-> "Int", n |-> n]

Tuple(items) == [kind |-> "Tuple", isnil |-> FALSE, items |-> items]

NilTuple == [kind |-> "Tuple", isnil |-> TRUE, items |-> <<>>]

List(items) == [kind |-> "List", isnil |-> FALSE, items |-> items]

NilList == [kind |-> "List", isnil |-> TRUE, items |-> <<>>]

\* a StringDict is a set of <<key, value>> pairs with distinct keys
StringDict(pairs) == [kind |-> "StringDict", isnil |-> FALSE, pairs |-> pairs]

NilStringDict == [kind |-> "StringDict", isnil |-> TRUE, pairs |-> {}]

NewStringDict == StringDict({})

HasKey(d, k) == \E p \in d.pairs : p[1] = k

Lookup(d, k) == (CHOOSE p \in d.pairs : p[1] = k)[2]

Code(name, consts, freevars) ==
    [kind |-> "Code", Name |-> name, Consts |-> consts, Freevars |-> freevars]

Cell(i) == [kind |-> "Cell", id |-> i]

\* the pointer to the one Function object of the model
FunctionPtr == [kind |-> "Function", ptr |-> "f"]

\* addresses a newly allocated bound method can get
MethodPtrs == {"m1", "m2"}

BoundMethod(ptr, self, method) ==
    [kind |-> "BoundMethod", ptr |-> ptr, Self |-> self, Method |-> method]

\* len() of a tuple, nil or not
len(t) == Len(t.items)

(***************************************************************************)
(* Exceptions: ExceptionNewf(type, format, args...) keeps the type and the *)
(* format with its arguments.  NoErr is Go's nil error.                    *)
(***************************************************************************)
NoErr == [type |-> "nil", msg |-> <<>>]

ExceptionNewf(type, msg) == [type |-> type, msg |-> msg]

\* what an operation that returns nothing, or panics, leaves as its result
NoRet == [kind |-> "void"]

(***************************************************************************)
(* The inputs.                                                             *)
(***************************************************************************)
FreeNames(n) == [i \in 1..n |-> IF i = 1 THEN "a" ELSE IF i = 2 THEN "b" ELSE "c"]

\* name and constants of the compiled bodies: a docstring first, a textual
\* constant that is not first, and no constants at all
Bodies ==
    { <<"add", <<String("adds two numbers"), IntObj(1)>> >>,
      <<"inc", <<IntObj(1), String("one")>> >>,
      <<"nop", <<>> >> }

\* the code objects functions are made from: every body without free
\* variables, and the first body with 1..MaxFree of them
NewCodes ==
    { Code(b[1], b[2], FreeNames(0)) : b \in Bodies }
        \cup { Code("add", <<String("adds two numbers"), IntObj(1)>>, FreeNames(n)) :
                    n \in 1..MaxFree }

\* the code objects handed to the setters
CodeValues == { Code("sub", <<>>, FreeNames(n)) : n \in 0..MaxFree }

GlobalsValues ==
    { StringDict({<<"__name__", String("mathmod")>>}),
      StringDict({<<"x", IntObj(1)>>}) }

QualnameValues == {"", "outer.add"}

\* the arguments of NewFunction: the first body without free variables with
\* every globals and qualname, the other code objects with the first ones
NewArguments ==
    { a \in NewCodes \X GlobalsValues \X QualnameValues :
        \/ (a[1].Name = "add" /\ a[1].Freevars = <<>>)
        \/ (HasKey(a[2], "__name__") /\ a[3] = "") }

TupleValues == { Tuple(<<IntObj(1)>>) }

\* the values handed to the setters, one or more of each dynamic type
Values ==
    {String("g"), List(<<IntObj(1)>>), StringDict({<<"x", IntObj(1)>>})}
        \cup TupleValues \cup CodeValues

Instances == {None, IntObj(1), String("g")}

Owners == {None, [kind |-> "Type", name |-> "C"]}

ArgsValues == {Tuple(<<IntObj(2), IntObj(3)>>)}

KwargsValues == {NewStringDict}

\* what the evaluator VmEvalCodeEx can hand back: a result with a nil
\* error, or an error
EvalOutcomes ==
    { [result |-> None, err |-> NoErr],
      [result |-> IntObj(5), err |-> NoErr],
      [result |-> NoRet, err |-> ExceptionNewf("TypeError", <<"missing argument">>)] }

NoEval == [args |-> <<>>, out |-> [result |-> NoRet, err |-> NoErr]]

(***************************************************************************)
(* NewFunction                                                             *)
(***************************************************************************)
\* a variant that takes the first textual constant wherever it stands
NewFunction_doc_any(code) ==
    IF \E i \in 1..Len(code.Consts) : code.Consts[i].kind = "String"
    THEN code.Consts[CHOOSE i \in 1..Len(code.Consts) :
                        /\ code.Consts[i].kind = "String"
                        /\ \A j \in 1..(i - 1) : code.Consts[j].kind # "String"]
    ELSE None

NewFunction_doc(code) ==
    IF Len(code.Consts) >= 1
    THEN IF code.Consts[1].kind = "String" THEN code.Consts[1] ELSE None
    ELSE None

NewFunction_module(globals) ==
    IF HasKey(globals, "__name__") THEN Lookup(globals, "__name__") ELSE None

\* a variant that ignores the qualname it is given
NewFunction_qualname_ignored(code, qualname) == code.Name

NewFunction_qualname(code, qualname) ==
    IF qualname = "" THEN code.Name ELSE qualname

NewFunction(code, globals, qualname) ==
    [ Code        |-> code,
      Globals     |-> globals,
      Defaults    |-> NilTuple,
      KwDefaults  |-> NilStringDict,
      Closure     |-> NilTuple,
      Doc         |-> NewFunction_doc(code),
      Name        |-> code.Name,
      Dict        |-> NilStringDict,
      Weakreflist |-> NilList,
      Module      |-> NewFunction_module(globals),
      Annotations |-> NilStringDict,
      Qualname    |-> NewFunction_qualname(code, qualname) ]

Fields ==
    {"Code", "Globals", "Defaults", "KwDefaults", "Closure", "Doc", "Name",
     "Dict", "Weakreflist", "Module", "Annotations", "Qualname"}

(***************************************************************************)
(* M__call__ and M__get__                                                  *)
(***************************************************************************)
\* a variant that hands the evaluator no defaults
M__call__args_nodefaults(fn, args, kwargs) ==
    <<fn.Code, fn.Globals, NewStringDict, args, kwargs,
      NilTuple, fn.KwDefaults, fn.Closure>>

\* the arguments M__call__ hands to VmEvalCodeEx
M__call__args(fn, args, kwargs) ==
    <<fn.Code, fn.Globals, NewStringDict, args, kwargs,
      fn.Defaults, fn.KwDefaults, fn.Closure>>

\* what M__call__ does with what VmEvalCodeEx returned: a non-nil error is
\* the panic value, and the result is returned as it is
M__call__result(out) ==
    [ err |-> out.err,
      ret |-> IF out.err # NoErr THEN NoRet ELSE out.result ]

NewBoundMethod(self, method, ptr) == BoundMethod(ptr, self, method)

\* a variant that binds whatever the instance is
M__get__always_bound(fn, instance, owner, ptr) ==
    [ f   |-> fn,
      ret |-> NewBoundMethod(instance, FunctionPtr, ptr) ]

\* ptr is the address the allocator gives a new bound method
M__get__(fn, instance, owner, ptr) ==
    [ f   |-> fn,
      ret |-> IF instance # None
              THEN NewBoundMethod(instance, FunctionPtr, ptr)
              ELSE FunctionPtr ]

(***************************************************************************)
(* The property table of init(): a setter or deleter yields the function   *)
(* as it leaves it and the exception it panics with (NoErr for none).      *)
(***************************************************************************)
Fget_code(fn) == fn.Code

\* a variant that stores the code object before it counts the free variables
Fset_code_store_first(fn, value) ==
    IF value.kind # "Code"
    THEN [f |-> fn, err |-> ExceptionNewf("TypeError",
                <<"__code__ must be set to a code object">>)]
    ELSE LET nfree == Len(value.Freevars)
             nclosure == len(fn.Closure)
         IN [f   |-> [fn EXCEPT !.Code = value],
             err |-> IF nfree # nclosure
                     THEN ExceptionNewf("ValueError",
                            <<"%s() requires a code object with %d free vars, not %d",
                              fn.Name, nclosure, nfree>>)
                     ELSE NoErr]

\* a variant that does not count the free variables
Fset_code_unchecked(fn, value) ==
    IF value.kind # "Code"
    THEN [f |-> fn, err |-> ExceptionNewf("TypeError",
                <<"__code__ must be set to a code object">>)]
    ELSE [f |-> [fn EXCEPT !.Code = value], err |-> NoErr]

Fset_code(fn, value) ==
    IF value.kind # "Code"
    THEN [f |-> fn, err |-> ExceptionNewf("TypeError",
                <<"__code__ must be set to a code object">>)]
    ELSE LET nfree == Len(value.Freevars)
             nclosure == len(fn.Closure)
         IN IF nfree # nclosure
            THEN [f |-> fn, err |-> ExceptionNewf("ValueError",
                    <<"%s() requires a code object with %d free vars, not %d",
                      fn.Name, nclosure, nfree>>)]
            ELSE [f |-> [fn EXCEPT !.Code = value], err |-> NoErr]

Fget_defaults(fn) == fn.Defaults

\* a variant that takes a list too, as a tuple of its items
Fset_defaults_sequence(fn, value) ==
    IF value.kind \notin {"Tuple", "List"}
    THEN [f |-> fn, err |-> ExceptionNewf("TypeError",
                <<"__defaults__ must be set to a tuple object">>)]
    ELSE [f |-> [fn EXCEPT !.Defaults = Tuple(value.items)], err |-> NoErr]

Fset_defaults(fn, value) ==
    IF value.kind # "Tuple"
    THEN [f |-> fn, err |-> ExceptionNewf("TypeError",
                <<"__defaults__ must be set to a tuple object">>)]
    ELSE [f |-> [fn EXCEPT !.Defaults = value], err |-> NoErr]

Fdel_defaults(fn) == [f |-> [fn EXCEPT !.Defaults = NilTuple], err |-> NoErr]

Fget_kwdefaults(fn) == fn.KwDefaults

Fset_kwdefaults(fn, value) ==
    IF value.kind # "StringDict"
    THEN [f |-> fn, err |-> ExceptionNewf("TypeError",
                <<"__kwdefaults__ must be set to a dict object">>)]
    ELSE [f |-> [fn EXCEPT !.KwDefaults = value], err |-> NoErr]

Fdel_kwdefaults(fn) ==
    [f |-> [fn EXCEPT !.KwDefaults = NilStringDict], err |-> NoErr]

Fget_annotations(fn) == fn.Annotations

Fset_annotations(fn, value) ==
    IF value.kind # "StringDict"
    THEN [f |-> fn, err |-> ExceptionNewf("TypeError",
                <<"__annotations__ must be set to a dict object">>)]
    ELSE [f |-> [fn EXCEPT !.Annotations = value], err |-> NoErr]

\* a variant that refuses to delete what is not there
Fdel_annotations_strict(fn) ==
    IF fn.Annotations.isnil
    THEN [f |-> fn, err |-> ExceptionNewf("AttributeError", <<"__annotations__">>)]
    ELSE [f |-> [fn EXCEPT !.Annotations = NilStringDict], err |-> NoErr]

Fdel_annotations(fn) ==
    [f |-> [fn EXCEPT !.Annotations = NilStringDict], err |-> NoErr]

Fget_dict(fn) == fn.Dict

\* a variant that drops a value that is no dict without a word
Fset_dict_silent(fn, value) ==
    IF value.kind # "StringDict"
    THEN [f |-> fn, err |-> NoErr]
    ELSE [f |-> [fn EXCEPT !.Dict = value], err |-> NoErr]

Fset_dict(fn, value) ==
    IF value.kind # "StringDict"
    THEN [f |-> fn, err |-> ExceptionNewf("TypeError",
                <<"__dict__ must be set to a dict object">>)]
    ELSE [f |-> [fn EXCEPT !.Dict = value], err |-> NoErr]

Fdel_dict(fn) == [f |-> [fn EXCEPT !.Dict = NilStringDict], err |-> NoErr]

Fget_name(fn) == String(fn.Name)

\* a variant that renames the qualified name along with the name
Fset_name_both(fn, value) ==
    IF value.kind # "String"
    THEN [f |-> fn, err |-> ExceptionNewf("TypeError",
                <<"__name__ must be set to a string object">>)]
    ELSE [f |-> [fn EXCEPT !.Name = value.s, !.Qualname = value.s], err |-> NoErr]

Fset_name(fn, value) ==
    IF value.kind # "String"
    THEN [f |-> fn, err |-> ExceptionNewf("TypeError",
                <<"__name__ must be set to a string object">>)]
    ELSE [f |-> [fn EXCEPT !.Name = value.s], err |-> NoErr]

Fget_qualname(fn) == String(fn.Qualname)

Fset_qualname(fn, value) ==
    IF value.kind # "String"
    THEN [f |-> fn, err |-> ExceptionNewf("TypeError",
                <<"__qualname__ must be set to a string object">>)]
    ELSE [f |-> [fn EXCEPT !.Qualname = value.s], err |-> NoErr]

(***************************************************************************)
(* The state machine: f is the Function object, last the operation that    *)
(* was applied to it last, with its inputs and what it gave back.          *)
(***************************************************************************)
\* changed tells whether the operation left f another value than it found
Op(op, attr, in, err, ret, eval, changed) ==
    [op |-> op, attr |-> attr, in |-> in, err |-> err, ret |-> ret, eval |-> eval,
     changed |-> changed]

Init ==
    \E a \in NewArguments :
      LET code == a[1]
          globals == a[2]
          qualname == a[3]
      IN
        /\ f = NewFunction(code, globals, qualname)
        /\ last = Op("NewFunction", "", <<code, globals, qualname>>,
                     NoErr, FunctionPtr, NoEval, FALSE)
        /\ stack = <<>>

\* The caller that makes a closure stores the cells of the code's free
\* variables in the Closure field right after NewFunction.
MakeClosure ==
    /\ last.op = "NewFunction"
    /\ Len(f.Code.Freevars) > 0
    /\ f' = [f EXCEPT !.Closure =
                Tuple([i \in 1..Len(f.Code.Freevars) |-> Cell(i)])]
    /\ last' = Op("MakeClosure", "", <<>>, NoErr, NoRet, NoEval, TRUE)
    /\ UNCHANGED stack

\* M__call__ up to its call of VmEvalCodeEx: it reads the fields and hands
\* them over.  The evaluator then runs the code of the function, which can
\* use this same function: every action can follow before the call returns.
CallEnter ==
    \E args \in ArgsValues, kwargs \in KwargsValues :
        /\ Len(stack) < MaxDepth
        /\ stack' = Append(stack, [args |-> args, kwargs |-> kwargs])
        /\ last' = Op("VmEvalCodeEx", "", <<args, kwargs>>, NoErr, NoRet,
                      [args |-> M__call__args(f, args, kwargs), out |-> NoEval.out],
                      FALSE)
        /\ UNCHANGED f

\* VmEvalCodeEx comes back to the innermost call, which returns or panics
CallReturn ==
    \E out \in EvalOutcomes :
        LET frame == stack[Len(stack)]
            r == M__call__result(out)
        IN /\ Len(stack) > 0
           /\ stack' = SubSeq(stack, 1, Len(stack) - 1)
           /\ last' = Op("M__call__", "", <<frame.args, frame.kwargs>>, r.err, r.ret,
                         [args |-> <<>>, out |-> out], FALSE)
           /\ UNCHANGED f

\* the pointers the caller may still hold when a bound method is allocated
Live == {"f"} \cup (IF last.ret.kind = "BoundMethod" THEN {last.ret.ptr} ELSE {})

Bind ==
    \E instance \in Instances, owner \in Owners :
        LET r == M__get__(f, instance, owner, CHOOSE p \in MethodPtrs : p \notin Live)
        IN /\ f' = r.f
           /\ last' = Op("M__get__", "", <<instance, owner>>, NoErr, r.ret, NoEval, r.f # f)
           /\ UNCHANGED stack

Got(attr, value) ==
    /\ last' = Op("Fget", attr, <<>>, NoErr, value, NoEval, FALSE)
    /\ UNCHANGED <<f, stack>>

Set(attr, value, r) ==
    /\ f' = r.f
    /\ last' = Op("Fset", attr, <<value>>, r.err, NoRet, NoEval, r.f # f)
    /\ UNCHANGED stack

Deleted(attr, r) ==
    /\ f' = r.f
    /\ last' = Op("Fdel", attr, <<>>, r.err, NoRet, NoEval, r.f # f)
    /\ UNCHANGED stack

GetCode == Got("__code__", Fget_code(f))

SetCode == \E value \in Values : Set("__code__", value, Fset_code(f, value))

GetDefaults == Got("__defaults__", Fget_defaults(f))

SetDefaults == \E value \in Values : Set("__defaults__", value, Fset_defaults(f, value))

DelDefaults == Deleted("__defaults__", Fdel_defaults(f))

GetKwDefaults == Got("__kwdefaults__", Fget_kwdefaults(f))

SetKwDefaults ==
    \E value \in Values : Set("__kwdefaults__", value, Fset_kwdefaults(f, value))

DelKwDefaults == Deleted("__kwdefaults__", Fdel_kwdefaults(f))

GetAnnotations == Got("__annotations__", Fget_annotations(f))

SetAnnotations ==
    \E value \in Values : Set("__annotations__", value, Fset_annotations(f, value))

DelAnnotations == Deleted("__annotations__", Fdel_annotations(f))

GetDict == Got("__dict__", Fget_dict(f))

SetDict == \E value \in Values : Set("__dict__", value, Fset_dict(f, value))

DelDict == Deleted("__dict__", Fdel_dict(f))

GetName == Got("__name__", Fget_name(f))

SetName == \E value \in Values : Set("__name__", value, Fset_name(f, value))

GetQualname == Got("__qualname__", Fget_qualname(f))

SetQualname ==
    \E value \in Values : Set("__qualname__", value, Fset_qualname(f, value))

Next ==
    \/ MakeClosure
    \/ CallEnter
    \/ CallReturn
    \/ Bind
    \/ GetCode
    \/ SetCode
    \/ GetDefaults
    \/ SetDefaults
    \/ DelDefaults
    \/ GetKwDefaults
    \/ SetKwDefaults
    \/ DelKwDefaults
    \/ GetAnnotations
    \/ SetAnnotations
    \/ DelAnnotations
    \/ GetDict
    \/ SetDict
    \/ DelDict
    \/ GetName
    \/ SetName
    \/ GetQualname
    \/ SetQualname

Spec == Init /\ [][Next]_vars

(***************************************************************************)
(* The property table read by name.                                        *)
(***************************************************************************)
\* FunctionType.Dict[attr].Fget
Fget(attr, fn) ==
    CASE attr = "__code__"        -> Fget_code(fn)
      [] attr = "__defaults__"    -> Fget_defaults(fn)
      [] attr = "__kwdefaults__"  -> Fget_kwdefaults(fn)
      [] attr = "__annotations__" -> Fget_annotations(fn)
      [] attr = "__dict__"        -> Fget_dict(fn)
      [] attr = "__name__"        -> Fget_name(fn)
      [] attr = "__qualname__"    -> Fget_qualname(fn)

\* the field of Function behind the property attr
FieldOf(attr) ==
    CASE attr = "__code__"        -> "Code"
      [] attr = "__defaults__"    -> "Defaults"
      [] attr = "__kwdefaults__"  -> "KwDefaults"
      [] attr = "__annotations__" -> "Annotations"
      [] attr = "__dict__"        -> "Dict"
      [] attr = "__name__"        -> "Name"
      [] attr = "__qualname__"    -> "Qualname"

(***************************************************************************)
(* The properties.                                                         *)
(***************************************************************************)
\* the closure has as many cells as the code object has free variables
ClosureArity == len(f.Closure) = Len(f.Code.Freevars)

\* the dynamic types that are ordered sequences
SequenceKinds == {"Tuple", "List"}

\* value is not of the category the setter of attr is specified to take
WrongCategory(attr, value) ==
    CASE attr = "__code__"        -> value.kind # "Code"
      [] attr = "__defaults__"    -> value.kind \notin SequenceKinds
      [] attr = "__kwdefaults__"  -> value.kind # "StringDict"
      [] attr = "__annotations__" -> value.kind # "StringDict"
      [] attr = "__dict__"        -> value.kind # "StringDict"
      [] attr = "__name__"        -> value.kind # "String"
      [] attr = "__qualname__"    -> value.kind # "String"

\* C1: setting __code__ to a code object whose number of free variables is
\* not the length of the closure fails with a ValueError that names both
\* counts, and the Code field keeps its value.
C1_CodeArityMismatchRejected ==
    [][ ( /\ last'.op = "Fset"
          /\ last'.attr = "__code__"
          /\ last'.in[1].kind = "Code"
          /\ Len(last'.in[1].Freevars) # len(f.Closure) )
        => ( /\ last'.err.type = "ValueError"
             /\ last'.err.msg[3] = len(f.Closure)
             /\ last'.err.msg[4] = Len(last'.in[1].Freevars)
             /\ f'.Code = f.Code ) ]_vars

\* a code object with one free variable was refused while the closure is empty
C1_Witness ==
    /\ last.op = "Fset"
    /\ last.attr = "__code__"
    /\ last.in[1].kind = "Code"
    /\ Len(last.in[1].Freevars) = 1
    /\ len(f.Closure) = 0
    /\ last.err.type = "ValueError"
    /\ f.Code # last.in[1]

\* C2: once the closure is as long as the free variables of the code object,
\* no operation on the function, failing or not, makes them differ.
C2_ClosureArityPreserved == [][ClosureArity => ClosureArity']_vars

\* the code object of a function with a closure of one cell was replaced
C2_Witness ==
    /\ last.op = "Fset"
    /\ last.attr = "__code__"
    /\ last.err = NoErr
    /\ last.changed
    /\ len(f.Closure) = 1
    /\ ClosureArity

\* C3: a setter given a value of the wrong category fails with a TypeError
\* and leaves every field of the function as it was.
C3_WrongCategoryRejected ==
    [][ (last'.op = "Fset" /\ WrongCategory(last'.attr, last'.in[1]))
        => (last'.err.type = "TypeError" /\ f' = f) ]_vars

\* __dict__ was given a tuple and the setter raised TypeError
C3_Witness ==
    /\ last.op = "Fset"
    /\ last.attr = "__dict__"
    /\ last.in[1].kind = "Tuple"
    /\ last.err.type = "TypeError"

\* C4: a deleter never fails, the field it deleted reads back as nil, and
\* the same deleter run again right after leaves the function as it is.
C4_DeleteClearsAndIsIdempotent ==
    [][ last'.op = "Fdel"
        => ( /\ last'.err = NoErr
             /\ Fget(last'.attr, f').isnil
             /\ (last.op = "Fdel" /\ last.attr = last'.attr => f' = f) ) ]_vars

\* __annotations__ was deleted while it was already nil
C4_Witness ==
    /\ last.op = "Fdel"
    /\ last.attr = "__annotations__"
    /\ last.err = NoErr
    /\ ~last.changed
    /\ f.Annotations.isnil

\* C5: NewFunction does not fail; the name is the name of the code object,
\* the qualified name is the one given, or the name of the code object when
\* "" is given; defaults, keyword defaults, closure, dict and annotations
\* are nil.
C5_NewFunctionFields ==
    last.op = "NewFunction"
    => LET code == last.in[1]
           qualname == last.in[3]
       IN /\ last.err = NoErr
          /\ f.Name = code.Name
          /\ f.Qualname = (IF qualname # "" THEN qualname ELSE code.Name)
          /\ f.Defaults.isnil
          /\ f.KwDefaults.isnil
          /\ f.Closure.isnil
          /\ f.Dict.isnil
          /\ f.Annotations.isnil

\* a function was made with a qualified name of its own
C5_Witness ==
    /\ last.op = "NewFunction"
    /\ last.in[3] # ""
    /\ f.Qualname = last.in[3]
    /\ f.Qualname # f.Name

\* C6: the doc of a new function is the first constant of the code object
\* when there is one and it is a string, and None otherwise, whatever the
\* constants after the first are.
C6_DocIsFirstTextualConstant ==
    last.op = "NewFunction"
    => LET consts == last.in[1].Consts
       IN f.Doc = (IF Len(consts) > 0 /\ consts[1].kind = "String"
                   THEN consts[1]
                   ELSE None)

\* a function was made from a code object whose second constant, and not
\* its first, is a string
C6_Witness ==
    /\ last.op = "NewFunction"
    /\ Len(last.in[1].Consts) >= 2
    /\ last.in[1].Consts[1].kind # "String"
    /\ last.in[1].Consts[2].kind = "String"
    /\ f.Doc = None

\* C7: M__get__ gives the function itself for the instance None, for any
\* other instance a newly allocated bound method of that instance and the
\* function, and does not change the function.
C7_Bind ==
    [][ last'.op = "M__get__"
        => ( /\ f' = f
             /\ IF last'.in[1] = None
                THEN last'.ret = FunctionPtr
                ELSE /\ last'.ret.kind = "BoundMethod"
                     /\ last'.ret.Self = last'.in[1]
                     /\ last'.ret.Method = FunctionPtr
                     /\ last'.ret.ptr \notin Live ) ]_vars

\* the function was read through an instance and a bound method came back
C7_Witness ==
    /\ last.op = "M__get__"
    /\ last.in[1] # None
    /\ last.ret.kind = "BoundMethod"
    /\ last.ret.Self = last.in[1]

\* C8: M__call__ hands the evaluator the code object, the globals, a new
\* empty dict, its arguments and the defaults, keyword defaults and closure
\* the function has when it is called; when the evaluator comes back it
\* returns the evaluator's result, or panics with the evaluator's error;
\* neither step changes a field of the function.  (The code the evaluator
\* runs in between may set or delete attributes of the function: those
\* changes are steps of the setters and deleters, not of M__call__.)
C8_CallForwards ==
    [][ /\ ( last'.op = "VmEvalCodeEx"
              => ( /\ f' = f
                   /\ last'.eval.args =
                          <<f.Code, f.Globals, NewStringDict, last'.in[1], last'.in[2],
                            f.Defaults, f.KwDefaults, f.Closure>>
                   /\ Len(stack') = Len(stack) + 1 ) )
        /\ ( last'.op = "M__call__"
              => ( /\ f' = f
                   /\ last'.in = <<stack[Len(stack)].args, stack[Len(stack)].kwargs>>
                   /\ last'.err = last'.eval.out.err
                   /\ (last'.eval.out.err = NoErr
                         => last'.ret = last'.eval.out.result) ) )
        /\ (f' # f => last'.op \in {"Fset", "Fdel", "MakeClosure"}) ]_vars

\* a function whose defaults were set and which has a closure is called:
\* the evaluator has just been handed those defaults and that closure
C8_Witness ==
    /\ last.op = "VmEvalCodeEx"
    /\ Len(stack) > 0
    /\ ~f.Defaults.isnil
    /\ ~f.Closure.isnil
    /\ last.eval.args[6] = f.Defaults
    /\ last.eval.args[8] = f.Closure

\* C9 as stated: the setter of __defaults__ takes every ordered sequence,
\* of whatever kind, and a get after it gives that value back.
C9_AnySequenceAccepted ==
    ( /\ last.op = "Fset"
      /\ last.attr = "__defaults__"
      /\ last.in[1].kind \in SequenceKinds )
    => (last.err = NoErr /\ Fget_defaults(f) = last.in[1])

\* C9 amended: the setter of __defaults__ takes a tuple, and a get after it
\* gives that tuple back; any other value, a list too, fails with a
\* TypeError and the function is left as it was.
C9_OnlyTupleAccepted ==
    [][ (last'.op = "Fset" /\ last'.attr = "__defaults__")
        => IF last'.in[1].kind = "Tuple"
           THEN last'.err = NoErr /\ Fget_defaults(f') = last'.in[1]
           ELSE last'.err.type = "TypeError" /\ f' = f ]_vars

\* __defaults__ was given a list and the setter raised TypeError
C9_Witness ==
    /\ last.op = "Fset"
    /\ last.attr = "__defaults__"
    /\ last.in[1].kind = "List"
    /\ last.err.type = "TypeError"
    /\ Fget_defaults(f) # last.in[1]

\* C10: a setter or deleter that succeeds changes no field but the one of
\* its property, and a getter changes none.
C10_OnlyOwnField ==
    [][ /\ ( (last'.op \in {"Fset", "Fdel"} /\ last'.err = NoErr)
              => \A fld \in Fields \ {FieldOf(last'.attr)} : f'[fld] = f[fld] )
        /\ (last'.op = "Fget" => f' = f) ]_vars

\* the name was set to a new value and the qualified name kept another one
C10_Witness ==
    /\ last.op = "Fset"
    /\ last.attr = "__name__"
    /\ last.err = NoErr
    /\ last.changed
    /\ f.Name = last.in[1].s
    /\ f.Qualname # f.Name

====
